---- MODULE Spec2Model ----
(***************************************************************************)
(* A model of src/mandelbrot.c: the predicate evaluator is_stable, the     *)
(* grid generator fill_array, the renderer print_chart, the StarPU kernel  *)
(* cpu_func with its codelet cl, and the driver main.                      *)
(*                                                                         *)
(* Numbers.  A C double is modelled as a binary floating-point number      *)
(* with a significand of Prec bits (binary64 has 53) and round-to-nearest, *)
(* ties-to-even, after every operation: [m |-> significand, e |-> exp]     *)
(* stands for m * 2^e, normalised so that 2^(Prec-1) <= |m| < 2^Prec, and  *)
(* zero is [m |-> 0, e |-> 0].  The exponents the model reaches stay far   *)
(* inside binary64's range, so infinities, NaNs and subnormals do not      *)
(* occur and are not modelled.                                             *)
(***************************************************************************)
EXTENDS Integers, Sequences, FiniteSets, TLC

\* ---------------------------------------------------------------- bounds
\* The grid of the model (the program's is 63 x 100) and its iteration
\* count (the program's is 2000), scaled down.
ROWS == 3
COLS == 2
ITER == 3
\* Significand bits of the modelled double.
Prec == 8
\* Iteration bounds k handed to is_stable on its own: 0 .. MaxIter.
MaxIter == 4

NCELLS == ROWS * COLS

\* ------------------------------------------------------ double arithmetic
Abs(n) == IF n < 0 THEN -n ELSE n

Sign(n) == IF n < 0 THEN -1 ELSE 1

RECURSIVE BitLen(_)
BitLen(n) == IF n = 0 THEN 0 ELSE 1 + BitLen(n \div 2)

\* The double nearest to n * 2^e (ties to even).
RoundNE(n, e) ==
    IF n = 0 THEN [m |-> 0, e |-> 0]
    ELSE LET a   == Abs(n)
             len == BitLen(a)
         IN  IF len <= Prec
             THEN [m |-> n * 2^(Prec - len), e |-> e - (Prec - len)]
             ELSE LET s    == len - Prec
                      q    == a \div 2^s
                      r    == a % 2^s
                      half == 2^(s - 1)
                      q1   == IF r > half \/ (r = half /\ q % 2 = 1)
                              THEN q + 1 ELSE q
                  IN  IF q1 = 2^Prec
                      THEN [m |-> Sign(n) * 2^(Prec - 1), e |-> e + s + 1]
                      ELSE [m |-> Sign(n) * q1, e |-> e + s]

\* A double literal n * 2^e, and the conversion of an int to double.
Dbl(n, e) == RoundNE(n, e)

FromInt(n) == RoundNE(n, 0)

DZero == [m |-> 0, e |-> 0]

DNeg(x) == [m |-> -x.m, e |-> x.e]

\* x * y in double.
DMul(x, y) == RoundNE(x.m * y.m, x.e + y.e)

\* x + y in double.  An addend below a quarter of the other's last place
\* does not change it.
DAdd(x, y) ==
    IF x.m = 0 THEN y
    ELSE IF y.m = 0 THEN x
    ELSE LET hi == IF x.e >= y.e THEN x ELSE y
             lo == IF x.e >= y.e THEN y ELSE x
             d  == hi.e - lo.e
         IN  IF d > Prec + 1 THEN hi
             ELSE RoundNE(hi.m * 2^d + lo.m, lo.e)

DSub(x, y) == DAdd(x, DNeg(y))

\* x / y in double, y # 0: the quotient to Prec + 2 bits and a sticky bit.
DDiv(x, y) ==
    LET k  == Prec + 2
        nn == Abs(x.m) * 2^k
        q  == nn \div Abs(y.m)
        r  == nn % Abs(y.m)
        st == IF r = 0 THEN 0 ELSE 1
    IN  RoundNE(Sign(x.m) * Sign(y.m) * (2 * q + st), x.e - y.e - k - 1)

DAbs(x) == [m |-> Abs(x.m), e |-> x.e]

\* x <= y for doubles x, y >= 0.
DLeqPos(x, y) ==
    IF x.m = 0 THEN TRUE
    ELSE IF y.m = 0 THEN FALSE
    ELSE x.e < y.e \/ (x.e = y.e /\ x.m <= y.m)

DTwo == Dbl(2, 0)

\* ------------------------------------------------------ double complex
Cplx(re, im) == [re |-> re, im |-> im]

CZero == Cplx(DZero, DZero)

\* z * z + c, as the compiler expands it: each product and each sum rounded.
CSquarePlus(z, c) ==
    LET re == DSub(DMul(z.re, z.re), DMul(z.im, z.im))
        im == DAdd(DMul(z.re, z.im), DMul(z.im, z.re))
    IN  Cplx(DAdd(re, c.re), DAdd(im, c.im))

\* cabs(z) <= 2.0: cabs returns the double nearest to sqrt(re^2 + im^2),
\* which is <= 2 iff re^2 + im^2 <= (2 + half the gap above 2)^2
\*   = 4 + 2^(3-Prec) + 2^(2-2*Prec).
CabsLeq2(z) ==
    LET x  == DAbs(z.re)
        y  == DAbs(z.im)
        hi == IF DLeqPos(y, x) THEN x ELSE y
        lo == IF DLeqPos(y, x) THEN y ELSE x
    IN  IF ~DLeqPos(hi, DTwo) THEN FALSE
        ELSE IF lo.m = 0 \/ 2 * lo.e <= 3 - 3 * Prec THEN TRUE
        ELSE IF lo = DTwo THEN FALSE
        ELSE LET d == hi.e - lo.e
                 s == -2 * lo.e
             IN  (hi.m * 2^d) * (hi.m * 2^d) + lo.m * lo.m
                   <= 2^(2 + s) + 2^(3 - Prec + s) + 2^(2 - 2 * Prec + s)

\* ------------------------------------------------------------ is_stable
RECURSIVE Iterate(_, _, _)
Iterate(z, c, n) == IF n <= 0 THEN z ELSE Iterate(CSquarePlus(z, c), c, n - 1)

\* Faulty variant: the comparison the wrong way round.
StableRetInverted(z) == IF CabsLeq2(z) THEN 0 ELSE 1

\* Faulty variant: the comparison is strict, so a final z of magnitude
\* exactly 2 on the real axis is classified unstable.
StableRetStrict(z) ==
    IF CabsLeq2(z) /\ ~(z.im = DZero /\ DAbs(z.re) = DTwo) THEN 1 ELSE 0

\* The value is_stable returns for the final z (line 27).
StableRet(z) == IF CabsLeq2(z) THEN 1 ELSE 0

\* Faulty variant: the loop stops one iteration early.
is_stableOffByOne(c, iter) == StableRet(Iterate(CZero, c, iter - 1))

is_stable(c, iter) == StableRet(Iterate(CZero, c, iter))

\* ------------------------------------------------------------ fill_array
real_start == Dbl(-2, 0)

real_end == Dbl(1, -1)

imag_start == Dbl(-3, -1)

imag_end == Dbl(3, -1)

\* Faulty variant: the real range divided into COLS steps, not COLS - 1.
real_stepByCols == DDiv(DSub(real_end, real_start), FromInt(COLS))

real_step == DDiv(DSub(real_end, real_start), FromInt(COLS - 1))

imag_step == DDiv(DSub(imag_end, imag_start), FromInt(ROWS - 1))

\* Faulty variant: column-major placement.
FillIndexColMajor(i, j) == j * ROWS + i

\* The index fill_array writes for cell (i, j).
FillIndex(i, j) == i * COLS + j

\* The value fill_array computes for cell (i, j):
\* real_part + imag_part * I, with I = 0 + 1i.
FillCell(i, j) ==
    Cplx(DAdd(real_start, DMul(FromInt(j), real_step)),
         DAdd(imag_start, DMul(FromInt(i), imag_step)))

\* The two loops, from cell (i, j) on.  st.array is the array, st.log the
\* indices written so far, in order.
RECURSIVE FillFrom(_, _, _)
FillFrom(st, i, j) ==
    IF i >= ROWS THEN st
    ELSE IF j >= COLS THEN FillFrom(st, i + 1, 0)
    ELSE FillFrom([array |-> [st.array EXCEPT ![FillIndex(i, j)] = FillCell(i, j)],
                   log   |-> Append(st.log, FillIndex(i, j))], i, j + 1)

fill_array(array) == FillFrom([array |-> array, log |-> <<>>], 0, 0)

\* ----------------------------------------------------------- print_chart
\* Faulty variant: the buffer read column-major.
ChartIndexColMajor(i, j) == j * ROWS + i

\* The index print_chart reads for cell (i, j).
ChartIndex(i, j) == i * COLS + j

Glyph(value) == IF value # 0 THEN "." ELSE " "

\* What print_chart writes to stdout, one character per element.
RECURSIVE PrintRow(_, _, _)
PrintRow(array, i, j) ==
    IF j < COLS THEN <<Glyph(array[ChartIndex(i, j)])>> \o PrintRow(array, i, j + 1)
    ELSE <<"\n">>

RECURSIVE PrintRows(_, _)
PrintRows(array, i) ==
    IF i < ROWS THEN PrintRow(array, i, 0) \o PrintRows(array, i + 1)
    ELSE <<>>

print_chart(array) == PrintRows(array, 0)

\* ------------------------------------------------- the program's state
VARIABLES
    pc,          \* where main is
    matrix,      \* the input grid: [st, data]
    mask,        \* the Result Buffer: [st, data]
    writes,      \* how many times a unit has written each slot of mask
    handle,      \* matrix_handle: "none", "registered", "unregistered"
    rt,          \* the StarPU runtime: "off", "on", "shutdown"
    tasks,       \* the units: [st, c, i, mode, slot], by submission number
    loc,         \* main's loop locals: [i, c]
    ub,          \* how this build resolves cpu_func's undefined behaviour
    out,         \* stdout, one character per element
    err,         \* the perror reports on stderr
    exit_status, \* main's return value, once pc = "exited"
    call         \* a function called on its own: [fn, ...]

vars == <<pc, matrix, mask, writes, handle, rt, tasks, loc, ub,
          out, err, exit_status, call>>

Cells == 0 .. NCELLS - 1

\* static struct starpu_codelet cl.
cl == [cpu_funcs |-> <<"cpu_func">>, nbuffers |-> 1, modes |-> <<"STARPU_R">>]

\* The access mode main passes to starpu_task_insert for matrix_handle.
InsertMode == "STARPU_R"

\* The ways a build resolves the undefined behaviour of cpu_func's second
\* starpu_codelet_unpack_args call, which copies the first packed argument
\* (the 16-byte c) into the 4-byte i: the 12 bytes past i land in padding
\* or dead slots, or they land on c, or the process is killed (stack
\* protector, or the wild store through the variadic pointer that was
\* never passed).
Builds == {"overflow_harmless", "overflow_clobbers_c", "abort"}

\* What c may hold once it is overwritten: some value, stable or not.
ClobberedC == {CZero, Cplx(Dbl(3, 0), DZero)}

\* The int in the first four bytes (little-endian: the low word of the
\* significand) of the binary64 encoding of x.  The model's doubles have at
\* most Prec <= 21 significant bits, so that word is zero.
LowWord(x) ==
    IF Prec <= 21 THEN 0
    ELSE (Abs(x.m) % 2^(Prec - 21)) * 2^(53 - Prec)

\* An int that was never written, as a read may find it (zero or not).
IndeterminateInts == {0, 1}

NoCall == [fn |-> "none"]

NoTask == [st |-> "unsubmitted", c |-> CZero, i |-> 0, mode |-> "none", slot |-> -1]

Init ==
    /\ pc = "malloc_matrix"
    /\ matrix = [st |-> "none", data |-> [k \in Cells |-> CZero]]
    /\ mask = [st |-> "none", data |-> [k \in Cells |-> 0]]
    /\ writes = [k \in Cells |-> 0]
    /\ handle = "none"
    /\ rt = "off"
    /\ tasks = [t \in Cells |-> NoTask]
    /\ loc = [i |-> 0, c |-> CZero]
    /\ ub \in Builds
    /\ out = <<>>
    /\ err = <<>>
    /\ exit_status = 0
    /\ call = NoCall

\* ------------------------------------------------------------------ main
\* double complex *matrix = malloc(...); if (matrix == NULL) {...}
MallocMatrix ==
    /\ pc = "malloc_matrix"
    /\ \/ /\ matrix' = [matrix EXCEPT !.st = "valid"]
          /\ pc' = "malloc_mask"
          /\ UNCHANGED <<err, exit_status>>
       \/ /\ matrix' = [matrix EXCEPT !.st = "NULL"]
          /\ err' = Append(err, "malloc")
          /\ exit_status' = 1
          /\ pc' = "exited"
    /\ UNCHANGED <<mask, writes, handle, rt, tasks, loc, ub, out, call>>

\* Faulty variant: the NULL check on mask is missing.
MallocMaskUnchecked ==
    /\ pc = "malloc_mask"
    /\ \E st \in {"valid", "NULL"} : mask' = [mask EXCEPT !.st = st]
    /\ pc' = "fill_array"
    /\ UNCHANGED <<matrix, writes, handle, rt, tasks, loc, ub, out, err,
                   exit_status, call>>

\* int *mask = malloc(...); if (mask == NULL) {...}
MallocMask ==
    /\ pc = "malloc_mask"
    /\ \/ /\ mask' = [mask EXCEPT !.st = "valid"]
          /\ pc' = "fill_array"
          /\ UNCHANGED <<err, exit_status>>
       \/ /\ mask' = [mask EXCEPT !.st = "NULL"]
          /\ err' = Append(err, "malloc")
          /\ exit_status' = 1
          /\ pc' = "exited"
    /\ UNCHANGED <<matrix, writes, handle, rt, tasks, loc, ub, out, call>>

\* fill_array(a).array for the content a the fresh allocation is given in
\* Init, evaluated once.
FilledFrom == [a \in {[k \in Cells |-> CZero]} |-> fill_array(a).array]

\* fill_array(matrix);
FillMatrix ==
    /\ pc = "fill_array"
    /\ matrix' = [matrix EXCEPT !.data = FilledFrom[matrix.data]]
    /\ pc' = "starpu_init"
    /\ UNCHANGED <<mask, writes, handle, rt, tasks, loc, ub, out, err,
                   exit_status, call>>

\* starpu_init(NULL);
StarpuInit ==
    /\ pc = "starpu_init"
    /\ rt' = "on"
    /\ pc' = "register"
    /\ UNCHANGED <<matrix, mask, writes, handle, tasks, loc, ub, out, err,
                   exit_status, call>>

\* starpu_vector_data_register(&matrix_handle, 0, (uintptr_t)mask, ...);
Register ==
    /\ pc = "register"
    /\ handle' = "registered"
    /\ loc' = [loc EXCEPT !.i = 0]
    /\ pc' = "submit"
    /\ UNCHANGED <<matrix, mask, writes, rt, tasks, ub, out, err,
                   exit_status, call>>

\* Faulty variant: the index packed is one more than the loop's i.
SubmitNextIndex ==
    /\ pc = "submit"
    /\ loc.i < ROWS * COLS
    /\ LET c == matrix.data[loc.i]
       IN  /\ tasks' = [tasks EXCEPT ![loc.i] =
                          [st |-> "pending", c |-> c, i |-> loc.i + 1,
                           mode |-> InsertMode, slot |-> -1]]
           /\ loc' = [i |-> loc.i + 1, c |-> c]
    /\ UNCHANGED <<pc, matrix, mask, writes, handle, rt, ub, out, err,
                   exit_status, call>>

\* One iteration of the submission loop: c = matrix[i]; starpu_task_insert
\* packs c and i by value (STARPU_VALUE) and returns without waiting; i++.
Submit ==
    /\ pc = "submit"
    /\ loc.i < ROWS * COLS
    /\ LET c == matrix.data[loc.i]
       IN  /\ tasks' = [tasks EXCEPT ![loc.i] =
                          [st |-> "pending", c |-> c, i |-> loc.i, mode |-> InsertMode,
                           slot |-> -1]]
           /\ loc' = [i |-> loc.i + 1, c |-> c]
    /\ UNCHANGED <<pc, matrix, mask, writes, handle, rt, ub, out, err,
                   exit_status, call>>

AllDone == \A t \in Cells : tasks[t].st = "done"

\* Faulty variant: the barrier returns without waiting.
WaitForAllNoWait ==
    /\ pc = "submit"
    /\ loc.i >= ROWS * COLS
    /\ pc' = "unregister"
    /\ UNCHANGED <<matrix, mask, writes, handle, rt, tasks, loc, ub, out,
                   err, exit_status, call>>

\* starpu_task_wait_for_all(): reached when the loop ends, returns once
\* every submitted task has completed.
WaitForAll ==
    /\ pc = "submit"
    /\ loc.i >= ROWS * COLS
    /\ \A t \in Cells : tasks[t].st \in {"unsubmitted", "done"}
    /\ pc' = "unregister"
    /\ UNCHANGED <<matrix, mask, writes, handle, rt, tasks, loc, ub, out,
                   err, exit_status, call>>

\* Faulty variant: main goes on to shutdown and rendering with the buffer
\* still registered.
UnregisterSkipped ==
    /\ pc = "unregister"
    /\ pc' = "shutdown"
    /\ UNCHANGED <<matrix, mask, writes, handle, rt, tasks, loc, ub, out, err,
                   exit_status, call>>

\* starpu_data_unregister(matrix_handle);
Unregister ==
    /\ pc = "unregister"
    /\ handle' = "unregistered"
    /\ pc' = "shutdown"
    /\ UNCHANGED <<matrix, mask, writes, rt, tasks, loc, ub, out, err,
                   exit_status, call>>

\* starpu_shutdown();
Shutdown ==
    /\ pc = "shutdown"
    /\ rt' = "shutdown"
    /\ pc' = "print_chart"
    /\ UNCHANGED <<matrix, mask, writes, handle, tasks, loc, ub, out, err,
                   exit_status, call>>

\* print_chart(mask); a slot no unit wrote still holds what malloc left.
PrintChart ==
    /\ pc = "print_chart"
    /\ \E junk \in [Cells -> IndeterminateInts] :
          out' = out \o print_chart([k \in Cells |->
                     IF writes[k] = 0 THEN junk[k] ELSE mask.data[k]])
    /\ pc' = "free"
    /\ UNCHANGED <<matrix, mask, writes, handle, rt, tasks, loc, ub, err,
                   exit_status, call>>

\* free(matrix); free(mask); return 0;
FreeAndReturn ==
    /\ pc = "free"
    /\ matrix' = [matrix EXCEPT !.st = "freed"]
    /\ mask' = [mask EXCEPT !.st = "freed"]
    /\ exit_status' = 0
    /\ pc' = "exited"
    /\ UNCHANGED <<writes, handle, rt, tasks, loc, ub, out, err, call>>

\* --------------------------------------------------- the Task Runtime
Alive == pc \notin {"exited", "crashed"}

\* is_stable(c, ITER) for the values a unit can hold, evaluated once.
StableAtITER ==
    [c \in {FillCell(i, j) : i \in 0 .. ROWS - 1, j \in 0 .. COLS - 1} \cup ClobberedC
       |-> is_stable(c, ITER)]

\* starpu_codelet_unpack_args(cl_arg, &x) with a single destination: the
\* first packed argument, whatever its size, is copied to the destination.
\* The task was packed with <<c, i>>.
FirstPackedArg(t) == tasks[t].c

\* cpu_func, run once by some worker of the runtime on a submitted task t.
\* It touches shared state once, in its final store, so its run is one
\* step, and the units of different workers interleave as these steps do.
\* Both unpack calls start at the first packed argument: the first fills c,
\* the second copies the same 16 bytes over i, whose value becomes the low
\* word of c's real part.  Then val[i] = is_stable(c, ITER).
cpu_func(t) ==
    /\ Alive
    /\ rt = "on"
    /\ tasks[t].st = "pending"
    /\ LET c1 == FirstPackedArg(t)
           i  == LowWord(FirstPackedArg(t).re)
       IN  IF ub = "abort" \/ i \notin Cells
           THEN /\ pc' = "crashed"
                /\ UNCHANGED <<mask, writes, tasks>>
           ELSE /\ \E c \in (IF ub = "overflow_clobbers_c" THEN ClobberedC ELSE {c1}) :
                      mask' = [mask EXCEPT !.data[i] = StableAtITER[c]]
                /\ writes' = [writes EXCEPT ![i] = @ + 1]
                /\ tasks' = [tasks EXCEPT ![t].st = "done", ![t].slot = i]
                /\ UNCHANGED pc
    /\ UNCHANGED <<matrix, handle, rt, loc, ub, out, err, exit_status, call>>

main ==
    \/ MallocMatrix
    \/ MallocMask
    \/ FillMatrix
    \/ StarpuInit
    \/ Register
    \/ Submit
    \/ WaitForAll
    \/ Unregister
    \/ Shutdown
    \/ PrintChart
    \/ FreeAndReturn

Next ==
    \/ main
    \/ \E t \in Cells : cpu_func(t)

Spec == Init /\ [][Next]_vars

\* The program under a fair Task Runtime: main's thread keeps running while
\* it has a step to take (the barrier is its only blocking call), and the
\* runtime's workers eventually execute every task that stays pending.
FairSpec ==
    /\ Spec
    /\ WF_vars(main)
    /\ \A t \in Cells : WF_vars(cpu_func(t))

\* ------------------------------------- the functions called on their own
\* The program's state while a function is exercised on its own.
MainIdle ==
    /\ pc = "idle"
    /\ matrix = [st |-> "none", data |-> [k \in Cells |-> CZero]]
    /\ mask = [st |-> "none", data |-> [k \in Cells |-> 0]]
    /\ writes = [k \in Cells |-> 0]
    /\ handle = "none"
    /\ rt = "off"
    /\ tasks = [t \in Cells |-> NoTask]
    /\ loc = [i |-> 0, c |-> CZero]
    /\ ub = "none"
    /\ out = <<>>
    /\ err = <<>>
    /\ exit_status = 0

mainVars == <<pc, matrix, mask, writes, handle, rt, tasks, loc, ub, out, err,
              exit_status>>

\* Real and imaginary parts handed to is_stable: the multiples of 1/4 up to
\* 5/2 in magnitude, the smallest step above 2, and parts so small that
\* they vanish when added to 4.
Parts ==
    {Dbl(n, -2) : n \in -10 .. 10}
      \cup {Dbl(2^(Prec - 1) + 1, 2 - Prec), Dbl(1, -Prec), Dbl(-1, -Prec)}

CInputs == {Cplx(re, im) : re \in Parts, im \in Parts}

InitStable ==
    /\ MainIdle
    /\ call \in {[fn |-> "is_stable", c |-> c, iter |-> k, done |-> FALSE, ret |-> 0] :
                   c \in CInputs, k \in 0 .. MaxIter}

CallIsStable ==
    /\ call.fn = "is_stable"
    /\ ~call.done
    /\ call' = [call EXCEPT !.done = TRUE, !.ret = is_stable(call.c, call.iter)]
    /\ UNCHANGED mainVars

SpecStable == InitStable /\ [][CallIsStable]_vars

\* What a buffer of double complex holds before fill_array writes it.
JunkA == CZero

JunkB == Cplx(Dbl(7, 0), Dbl(-7, 0))

JunkGrids == [Cells -> {JunkA, JunkB}]

\* fill_array is called twice: on a buffer holding any junk, then on a
\* second buffer that differs from what the first held in every cell.
InitFill ==
    /\ MainIdle
    /\ \E g \in JunkGrids :
          call = [fn |-> "fill_array", n |-> 0, arg |-> g, array |-> g,
                  log |-> <<>>, first |-> g]

CallFillArray ==
    /\ call.fn = "fill_array"
    /\ call.n < 2
    /\ LET buf == IF call.n = 0 THEN call.arg
                  ELSE [k \in Cells |-> IF call.arg[k] = JunkA THEN JunkB ELSE JunkA]
           r   == fill_array(buf)
       IN  call' = [fn |-> "fill_array", n |-> call.n + 1, arg |-> buf,
                    array |-> r.array, log |-> r.log,
                    first |-> IF call.n = 0 THEN r.array ELSE call.first]
    /\ UNCHANGED mainVars

SpecFill == InitFill /\ [][CallFillArray]_vars

\* Result Buffers handed to print_chart: every buffer of 0s and 1s, and
\* buffers holding other non-zero ints.
ChartInputs ==
    [Cells -> {0, 1}]
      \cup {[k \in Cells |-> 7], [k \in Cells |-> -1],
            [k \in Cells |-> IF k % 2 = 0 THEN -5 ELSE 0]}

InitRender ==
    /\ MainIdle
    /\ \E a \in ChartInputs :
          call = [fn |-> "print_chart", array |-> a, done |-> FALSE, out |-> <<>>]

CallPrintChart ==
    /\ call.fn = "print_chart"
    /\ ~call.done
    /\ call' = [call EXCEPT !.done = TRUE, !.out = print_chart(call.array)]
    /\ UNCHANGED mainVars

SpecRender == InitRender /\ [][CallPrintChart]_vars

\* ================================================================ claims
\* main is past the barrier of a run whose allocations succeeded.
PastBarrier ==
    \/ pc \in {"unregister", "shutdown", "print_chart", "free"}
    \/ pc = "exited" /\ exit_status = 0

\* C1: the Result Buffer is not deregistered, rendered or freed, and
\* starpu_task_wait_for_all has not returned, while a submitted unit has
\* yet to complete: whenever main is past the barrier, or the handle is
\* unregistered, or anything was printed, or mask is freed, every one of
\* the ROWS*COLS units is done.
C1_BarrierBeforeRelease ==
    (PastBarrier \/ handle = "unregistered" \/ out # <<>> \/ mask.st = "freed")
      => \A t \in Cells : tasks[t].st = "done"

C1_Witness ==
    /\ pc = "print_chart"
    /\ handle = "unregistered"
    /\ \A t \in Cells : tasks[t].st = "done"

\* C2: over a complete run every slot of the Result Buffer is written by
\* exactly one unit (coverage and disjointness), the slot a unit writes
\* being the index cpu_func unpacked.
C2_EachSlotWrittenOnce ==
    PastBarrier => \A k \in Cells : writes[k] = 1

\* The Result Buffer after the units ran one after the other in the order
\* of their submission, from unit t on.
RECURSIVE InOrder(_, _)
InOrder(data, t) ==
    IF t >= ROWS * COLS THEN data
    ELSE InOrder([data EXCEPT ![LowWord(tasks[t].c.re)] = StableAtITER[tasks[t].c]],
                 t + 1)

\* C3: the final Result Buffer is the same for every order in which the
\* runtime executes the units (stated for the builds in which a unit's
\* result depends on its own arguments only): it is what the in-order run
\* of one worker leaves.
C3_OrderIndependent ==
    (PastBarrier /\ ub = "overflow_harmless")
      => mask.data = InOrder([k \in Cells |-> 0], 0)

\* C4: on a successful run the chart shows '.' at (row, col) iff
\* is_stable(grid[row*COLS + col], ITER), grid being what fill_array
\* produced, and main returns 0.
C4_ChartMatchesGrid ==
    (pc = "exited" /\ exit_status = 0)
      => out = print_chart([k \in Cells |-> StableAtITER[matrix.data[k]]])

\* C5: a failed allocation of either buffer ends main with status 1 and one
\* report, with nothing printed, the runtime never initialised, no buffer
\* registered and no unit submitted; status 1 has no other cause; and the
\* runtime is initialised, the buffer registered and 0 returned only with
\* both buffers allocated.
C5_AllocFailure ==
    /\ (matrix.st = "NULL" \/ mask.st = "NULL")
         => /\ pc = "exited" /\ exit_status = 1
            /\ Len(err) = 1
            /\ out = <<>>
            /\ rt = "off"
            /\ handle = "none"
            /\ \A t \in Cells : tasks[t].st = "unsubmitted"
    /\ (pc = "exited" /\ exit_status = 1) => (matrix.st = "NULL" \/ mask.st = "NULL")
    /\ (rt # "off" \/ handle # "none" \/ (pc = "exited" /\ exit_status = 0))
         => (matrix.st \in {"valid", "freed"} /\ mask.st \in {"valid", "freed"})

C5_Witness ==
    /\ pc = "exited"
    /\ exit_status = 1
    /\ matrix.st = "valid"
    /\ mask.st = "NULL"

\* C6: the buffer dependency of every submitted unit is write-only, in the
\* codelet's declared mode and in the mode passed at insertion.
C6_WriteOnlyAccess ==
    \A t \in Cells :
        tasks[t].st # "unsubmitted"
          => (cl.modes[1] = "STARPU_W" /\ tasks[t].mode = "STARPU_W")

\* C7: print_chart emits ROWS lines of COLS characters and a line
\* terminator each, nothing else, the character at (row, col) being '.'
\* iff slot row*COLS + col is non-zero and ' ' otherwise.
C7_ChartFormat ==
    (call.fn = "print_chart" /\ call.done)
      => /\ Len(call.out) = ROWS * (COLS + 1)
         /\ \A row \in 0 .. ROWS - 1 :
               /\ call.out[row * (COLS + 1) + COLS + 1] = "\n"
               /\ \A col \in 0 .. COLS - 1 :
                     call.out[row * (COLS + 1) + col + 1] =
                        IF call.array[row * COLS + col] # 0 THEN "." ELSE " "

C7_Witness ==
    /\ call.fn = "print_chart"
    /\ call.done
    /\ call.array = [k \in Cells |-> IF k % 2 = 0 THEN -5 ELSE 0]

\* C8: is_stable(0, k) is stable for every k >= 0.
C8_OriginStable ==
    (call.fn = "is_stable" /\ call.done /\ call.c = CZero) => call.ret = 1

C8_Witness ==
    /\ call.fn = "is_stable"
    /\ call.done
    /\ call.c = CZero
    /\ call.iter = MaxIter

\* re^2 + im^2 > 4, exactly, for the double complex c.
NormSqAbove4(c) ==
    LET x  == DAbs(c.re)
        y  == DAbs(c.im)
        hi == IF DLeqPos(y, x) THEN x ELSE y
        lo == IF DLeqPos(y, x) THEN y ELSE x
    IN  IF ~DLeqPos(hi, DTwo) THEN TRUE
        ELSE IF hi = DTwo THEN lo.m # 0
        ELSE IF lo.m = 0 \/ 2 * (lo.e + Prec) <= 2 - Prec THEN FALSE
        ELSE LET d == hi.e - lo.e
                 s == -2 * lo.e
             IN  (hi.m * 2^d) * (hi.m * 2^d) + lo.m * lo.m > 2^(2 + s)

C10_FillArray ==
    (call.fn = "fill_array" /\ call.n >= 1)
      => /\ Len(call.log) = ROWS * COLS
         /\ \A k \in Cells : Cardinality({p \in 1 .. Len(call.log) : call.log[p] = k}) = 1
         /\ \A row \in 0 .. ROWS - 1 : \A col \in 0 .. COLS - 1 :
               /\ call.array[row * COLS + col] = FillCell(row, col)
               /\ call.array[row * COLS + col].re = call.array[col].re
               /\ call.array[row * COLS + col].im = call.array[row * COLS].im
         /\ call.n = 2 => call.array = call.first

C10_Witness ==
    /\ call.fn = "fill_array"
    /\ call.n = 2
    /\ call.arg # call.first
    /\ call.array[ROWS * COLS - 1] = Cplx(real_end, imag_end)

C12_UnitWritesItsSlot ==
    [][\A t \in Cells :
          (tasks[t].st = "pending" /\ tasks'[t].st = "done")
            => /\ mask' = [mask EXCEPT !.data[tasks[t].i] = StableAtITER[tasks[t].c]]
               /\ writes' = [writes EXCEPT ![tasks[t].i] = @ + 1]
               /\ tasks' = [tasks EXCEPT ![t].st = "done", ![t].slot = tasks[t].i]
               /\ UNCHANGED <<pc, matrix, handle, rt, loc, ub, out, err,
                              exit_status, call>>]_vars

\* The state of the Execution Core, read off main's position, the handle
\* and the tasks, and its place in the lifecycle.
CoreState ==
    IF handle = "none" THEN "uninitialized"
    ELSE IF handle = "unregistered" THEN "buffer-deregistered"
    ELSE IF pc \in {"unregister", "shutdown", "print_chart", "free", "exited"}
         THEN "barrier-complete"
    ELSE IF \E t \in Cells : tasks[t].st # "unsubmitted" THEN "tasks-submitted"
    ELSE "buffer-registered"

CoreRank(s) ==
    CASE s = "uninitialized"       -> 0
      [] s = "buffer-registered"   -> 1
      [] s = "tasks-submitted"     -> 2
      [] s = "barrier-complete"    -> 3
      [] s = "buffer-deregistered" -> 4

\* C13: the Execution Core goes uninitialized -> buffer-registered ->
\* tasks-submitted -> barrier-complete -> buffer-deregistered, one state at
\* a time and never back (so each is entered once and the barrier returns
\* once); no unit is submitted before registration, the barrier returns
\* only after all ROWS*COLS submissions, nothing is rendered before
\* deregistration, and the buffers are freed only after the whole chart was
\* rendered.
C13_LifecycleOrder ==
    /\ [](/\ (\E t \in Cells : tasks[t].st # "unsubmitted") => handle # "none"
          /\ CoreRank(CoreState) >= 3
               => (loc.i = ROWS * COLS /\ \A t \in Cells : tasks[t].st # "unsubmitted")
          /\ out # <<>> => handle = "unregistered"
          /\ (matrix.st = "freed" \/ mask.st = "freed")
               => (matrix.st = "freed" /\ mask.st = "freed"
                   /\ Len(out) = ROWS * (COLS + 1)))
    /\ [][/\ CoreRank(CoreState') \in {CoreRank(CoreState), CoreRank(CoreState) + 1}
          /\ Len(out') >= Len(out)]_vars

C13_Witness ==
    /\ pc = "exited"
    /\ exit_status = 0
    /\ CoreState = "buffer-deregistered"
    /\ matrix.st = "freed"
    /\ mask.st = "freed"

\* C14: the submission loop submits once per index: after n iterations the
\* units submitted are those of indices 0 .. n-1, the unit of index i
\* holding i and matrix[i], and no other unit exists; n never exceeds
\* ROWS*COLS and is ROWS*COLS once the barrier is reached; a submitted unit
\* is never submitted again with other arguments.
C14_SubmissionCoversIndices ==
    /\ [](/\ loc.i \in 0 .. ROWS * COLS
          /\ \A t \in Cells :
                IF t < loc.i
                THEN /\ tasks[t].st # "unsubmitted"
                     /\ tasks[t].i = t
                     /\ tasks[t].c = matrix.data[t]
                ELSE tasks[t] = NoTask
          /\ PastBarrier
               => /\ loc.i = ROWS * COLS
                  /\ {tasks[t].i : t \in Cells} = 0 .. ROWS * COLS - 1)
    /\ [][\A t \in Cells :
             tasks[t].st # "unsubmitted"
               => /\ tasks'[t].st # "unsubmitted"
                  /\ tasks'[t].i = tasks[t].i
                  /\ tasks'[t].c = tasks[t].c]_vars

C14_Witness ==
    /\ pc = "submit"
    /\ loc.i = ROWS * COLS
    /\ \A t \in Cells : tasks[t].i = t /\ tasks[t].c = matrix.data[t]
    /\ tasks[ROWS * COLS - 1].st = "pending"

\* C15: a unit observes, when it runs, the values c and i had at its
\* submission, whatever main did to its locals since: the descriptor of the
\* unit submitted in iteration t keeps matrix[t] and t while loc moves on,
\* and the index cpu_func unpacked (kept in slot once the unit is done) is
\* that t.
C15_UnitObservesSubmittedArgs ==
    \A t \in Cells :
        /\ tasks[t].st # "unsubmitted"
             => (tasks[t].c = matrix.data[t] /\ tasks[t].i = t)
        /\ tasks[t].st = "done" => tasks[t].slot = tasks[t].i

\* z after 0, 1, .., MaxIter applications of z <- z*z + c from z = 0.
Orbit(c) ==
    LET z[n \in 0 .. MaxIter] == IF n = 0 THEN CZero ELSE CSquarePlus(z[n - 1], c)
    IN  z

C17_EventuallyTerminates ==
    /\ (matrix.st = "valid" /\ mask.st = "valid")
         ~> (/\ pc = "exited"
             /\ exit_status = 0
             /\ AllDone
             /\ handle = "unregistered"
             /\ Len(out) = ROWS * (COLS + 1))
    /\ [][/\ \A t \in Cells : tasks[t].st = "done" => tasks'[t] = tasks[t]
          /\ PastBarrier => tasks' = tasks]_vars

\* C18: when print_chart reads the Result Buffer, and ever after, every
\* slot has been written by a unit that completed, so no slot read holds
\* what the allocation left in it.
C18_RendererReadsWrittenSlots ==
    (pc = "print_chart" \/ out # <<>>)
      => \A k \in Cells :
            /\ writes[k] >= 1
            /\ \E t \in Cells : tasks[t].st = "done" /\ tasks[t].slot = k

====
